---- MODULE Spec2Model ----
(***************************************************************************)
(* Cart / inventory reconciliation and order submission of the Classwork   *)
(* Store front end: App.vue (App and the Checkout view) and                *)
(* components/LessonList.vue (the list view).                              *)
(*                                                                         *)
(* Money is counted in thousandths of a pound (mills), so that the         *)
(* two-decimal formatting of the checkout total is a real rounding.        *)
(* A JavaScript object or array is a function whose DOMAIN is its set of   *)
(* keys; the order of keys plays no part in any handler modelled here.     *)
(***************************************************************************)
EXTENDS Integers, FiniteSets, Sequences, TLC

(* ------------------------------ bounds -------------------------------- *)
\* largest space value a catalog response carries
MaxSpace == 2
\* largest quantityToRemove the remove handler is called with
MaxCount == 2
\* the list view's cart holds at most this many units of one lesson
MaxQty == 2
\* a cached space counter is not driven above this value
SpaceCap == 3
\* catalog requests of one list view instance outstanding at once
MaxFetch == 1

(* --------------------------- catalog data ----------------------------- *)
\* Records the catalog API serves.  A: _id a bare 12-character string;
\* B: _id in the wrapped form { $oid: ... }; C: _id a bare 2-character string.
LessonIds == {"A", "B", "C"}

RawId(l) ==
    CASE l = "A" -> [form |-> "string", str |-> "idA000000001", len |-> 12]
      [] l = "B" -> [form |-> "oid",    str |-> "idB000000002", len |-> 12]
      [] l = "C" -> [form |-> "string", str |-> "L3",           len |-> 2]

\* price of a lesson, in mills
Price(l) ==
    CASE l = "A" -> 10000
      [] l = "B" -> 2504
      [] l = "C" -> 1000

Null == "null"

\* getLessonId taking String(lesson._id) of a wrapped id
getLessonIdStringified(l) ==
    IF RawId(l).form = "string" /\ RawId(l).len >= 10
    THEN RawId(l).str
    ELSE IF RawId(l).form = "oid" /\ RawId(l).len > 0
         THEN "[object Object]"
         ELSE Null

\* LessonList.vue getLessonId
getLessonId(l) ==
    IF RawId(l).form = "string" /\ RawId(l).len >= 10
    THEN RawId(l).str
    ELSE IF RawId(l).form = "oid" /\ RawId(l).len > 0
         THEN RawId(l).str
         ELSE Null

\* the expression  l._id.$oid || l._id  of App.vue
legacyId(l) == RawId(l).str

CartKeys == {legacyId(l) : l \in LessonIds}

\* catalog responses: which lessons the answer lists, and their space
Catalogs ==
    { c \in UNION { [S -> 0..MaxSpace] : S \in {{}, {"A", "C"}, {"A", "B", "C"}} } :
        "C" \in DOMAIN c => c["C"] = 1 }

(* ----------------------------- helpers -------------------------------- *)
EmptyObj == [x \in {} |-> 0]

\* obj[k] = v
Put(obj, k, v) == [x \in (DOMAIN obj) \cup {k} |-> IF x = k THEN v ELSE obj[x]]

\* delete obj[k]
Del(obj, k) == [x \in (DOMAIN obj) \ {k} |-> obj[x]]

\* obj[k] || 0
GetOr0(obj, k) == IF k \in DOMAIN obj THEN obj[k] ELSE 0

RECURSIVE SumOver(_, _)
SumOver(f, S) ==
    IF S = {} THEN 0
    ELSE LET x == CHOOSE y \in S : TRUE IN f[x] + SumOver(f, S \ {x})

\* String.prototype.trim on the field contents used here
Names == {"", " ", "Al"}
Phones == {"", "07"}
trim(s) == IF s = " " THEN "" ELSE IF s = "a " THEN "a" ELSE s

\* the values of the filter and sort controls of the list view
SearchTerms == {"", "a", "a "}
SortFields == {"topic", "price"}
SortOrders == {"asc", "desc"}
MinSpaces == {1, 2}

(* ------------------------------ state --------------------------------- *)
VARIABLES
    \* App
    currentView,        \* 'list' or 'checkout'
    cart,               \* App cart: lessonId -> quantity
    lessons,            \* App lessons: lesson -> space
    \* LessonList (the mounted instance)
    llLessons,          \* lessons ref of the list view
    llCart,             \* cart ref of the list view
    isLoading,
    fetching,           \* catalog requests outstanding (not awaited by placeOrder)
    notification,       \* [show, message, success]
    customerInfo,       \* [name, phone]
    isPlacingOrder,
    isCheckoutVisible,
    filters,            \* [searchTerm, sortField, sortOrder, minSpaces]
    llPhase,            \* where placeOrder is suspended
    llRequest,          \* the order-create request of placeOrder in flight
    \* Checkout
    customerName,
    customerPhone,
    isProcessing,
    message,            \* [text, type]
    coPhase,            \* where submitOrder is suspended
    coRequest,          \* the order-create request of submitOrder in flight
    coPuts,             \* inventory requests of the last phase 2: id -> [quantity, state]
    \* environment and history
    orderForm,          \* the order form the customer works with: "checkout", "list", "none"
    reported,           \* the space the server has reported last: lesson -> space
    lastOp              \* the cart operation that made the last step, with its inputs

appVars == <<currentView, cart, lessons>>
llVars == <<llLessons, llCart, isLoading, fetching, notification, customerInfo,
            isPlacingOrder, isCheckoutVisible, filters, llPhase, llRequest>>
coVars == <<customerName, customerPhone, isProcessing, message, coPhase,
            coRequest, coPuts>>
vars == <<appVars, llVars, coVars, orderForm, reported, lastOp>>

\* no order-create request on the network; sent counts the requests in flight
NoRequest == [sent |-> 0]

\* an answer that leaves the request on the network, sent once more
answeredAndResent(request) == request

\* one request of a form is answered
answered(request) ==
    IF request.sent = 1 THEN NoRequest ELSE [request EXCEPT !.sent = @ - 1]
NoMessage == [text |-> "", detail |-> "", type |-> ""]
NoNotification == [show |-> FALSE, message |-> "", success |-> FALSE]

\* the refs searchTerm, sortField, sortOrder and minSpaces as set up
InitialFilters ==
    [searchTerm |-> "", sortField |-> "topic", sortOrder |-> "asc", minSpaces |-> 1]

\* lastOp.pre is the lesson's space before an add, the cart quantity before a remove
Op(name, key, n, pre) == [op |-> name, key |-> key, n |-> n, pre |-> pre]
OtherOp == Op("other", "", 0, 0)

(* ------------------------------ Init ---------------------------------- *)
\* App, Checkout and a LessonList instance right after setup and
\* onMounted(fetchLessons)
Setup ==
    /\ currentView = "list"
    /\ cart = EmptyObj
    /\ lessons = EmptyObj
    /\ llLessons = EmptyObj
    /\ llCart = EmptyObj
    /\ isLoading = TRUE
    /\ fetching = 1
    /\ notification = NoNotification
    /\ customerInfo = [name |-> "", phone |-> ""]
    /\ isPlacingOrder = FALSE
    /\ isCheckoutVisible = FALSE
    /\ filters = InitialFilters
    /\ llPhase = "idle"
    /\ llRequest = NoRequest
    /\ customerName = ""
    /\ customerPhone = ""
    /\ isProcessing = FALSE
    /\ message = NoMessage
    /\ coPhase = "idle"
    /\ coRequest = NoRequest
    /\ coPuts = EmptyObj
    /\ reported = EmptyObj
    /\ lastOp = OtherOp

(* --------------------------- App handlers ----------------------------- *)
\* App.vue updateCart, as a value: the copy { ...newCart }
updateCart(newCart) == [k \in DOMAIN newCart |-> newCart[k]]

\* Checkout: watch(() => props.cart, ..., { deep: true }) resets the message
cartWatcher == NoMessage

\* the lessons array the list view shows is the array App holds (fetchLessons
\* hands the same array to both); an empty list view list shares nothing
Aliased == DOMAIN llLessons # {}

\* index of the lesson handleRemoveItem finds for a cart key
findIndex(list, lessonId) == { l \in DOMAIN list : legacyId(l) = lessonId }

\* the amount handleRemoveItem adds back to the lesson's space
spaceRestored(quantityBefore, quantityToRemove) == quantityToRemove

\* handleRemoveItem without Math.max(0, ...)
quantityLeftNoFloor(quantityBefore, quantityToRemove) == quantityBefore - quantityToRemove

\* the quantity handleRemoveItem stores for the entry
quantityLeft(quantityBefore, quantityToRemove) ==
    IF quantityBefore - quantityToRemove > 0 THEN quantityBefore - quantityToRemove ELSE 0

\* handleRemoveItem keeping an entry of quantity 0
storeQuantityKeepsZero(c, lessonId, left) == Put(c, lessonId, left)

\* handleRemoveItem: the cart with the new quantity, the entry deleted at 0
storeQuantity(c, lessonId, left) ==
    IF left = 0 THEN Del(c, lessonId) ELSE Put(c, lessonId, left)

\* handleRemoveItem entered for any id
inCartAlways(lessonId) == TRUE

\* the test handleRemoveItem starts with: cart.value[lessonId] > 0
inCart(lessonId) == GetOr0(cart, lessonId) > 0

\* App.vue handleRemoveItem(lessonId, quantityToRemove)
handleRemoveItem(lessonId, quantityToRemove) ==
    LET q == GetOr0(cart, lessonId)
        found == findIndex(lessons, lessonId)
        left == quantityLeft(q, quantityToRemove)
        newLessons ==
            [l \in DOMAIN lessons |->
                IF l \in found
                THEN lessons[l] + spaceRestored(q, quantityToRemove)
                ELSE lessons[l]]
    IN  /\ \A l \in found : lessons[l] + quantityToRemove <= SpaceCap
        /\ IF inCart(lessonId)
           THEN /\ cart' = storeQuantity(cart, lessonId, left)
                /\ lessons' = newLessons
                /\ llLessons' = IF Aliased THEN newLessons ELSE llLessons
                /\ message' = cartWatcher
           ELSE UNCHANGED <<cart, lessons, llLessons, message>>
        /\ UNCHANGED <<filters, currentView, llCart, isLoading, fetching, notification,
                       customerInfo, isPlacingOrder, isCheckoutVisible, llPhase,
                       llRequest, customerName, customerPhone, isProcessing,
                       coPhase, coRequest, coPuts>>


\* LessonList onMounted(fetchLessons): the state of a new list view instance
mountLessonList ==
    /\ llLessons' = EmptyObj
    /\ llCart' = EmptyObj
    /\ isLoading' = TRUE
    /\ fetching' = 1
    /\ notification' = NoNotification
    /\ customerInfo' = [name |-> "", phone |-> ""]
    /\ isPlacingOrder' = FALSE
    /\ isCheckoutVisible' = FALSE
    /\ filters' = InitialFilters
    /\ llPhase' = "idle"
    /\ llRequest' = NoRequest

\* v-if="currentView === 'list'" turns false: the instance and its refs are
\* gone; what its pending requests answer reaches no live state
unmountLessonList ==
    /\ llLessons' = EmptyObj
    /\ llCart' = EmptyObj
    /\ isLoading' = TRUE
    /\ fetching' = 0
    /\ notification' = NoNotification
    /\ customerInfo' = [name |-> "", phone |-> ""]
    /\ isPlacingOrder' = FALSE
    /\ isCheckoutVisible' = FALSE
    /\ filters' = InitialFilters
    /\ llPhase' = "idle"
    /\ llRequest' = NoRequest

\* handleOrderPlaced, were it to reset the lesson list with the cart
handleOrderPlacedResetsLessons ==
    /\ cart' = EmptyObj
    /\ currentView' = "list"
    /\ message' = cartWatcher
    /\ lessons' = EmptyObj
    /\ IF currentView = "list"
       THEN /\ llLessons' = EmptyObj
            /\ UNCHANGED <<filters, llCart, isLoading, fetching, notification, customerInfo,
                           isPlacingOrder, isCheckoutVisible, llPhase, llRequest>>
       ELSE mountLessonList
    /\ UNCHANGED <<customerName, customerPhone, isProcessing, coPhase,
                   coRequest, coPuts>>

\* App.vue handleOrderPlaced
handleOrderPlaced ==
    /\ cart' = EmptyObj
    /\ currentView' = "list"
    /\ message' = cartWatcher
    /\ IF currentView = "list" THEN UNCHANGED llVars ELSE mountLessonList
    /\ UNCHANGED <<lessons, customerName, customerPhone, isProcessing, coPhase,
                   coRequest, coPuts>>

\* App.vue template: the title's @click
showList ==
    /\ currentView = "checkout"
    /\ currentView' = "list"
    /\ mountLessonList
    /\ UNCHANGED <<cart, lessons, coVars>>

\* App.vue template: the cart button's @click
showCheckout ==
    /\ currentView = "list"
    /\ currentView' = "checkout"
    /\ unmountLessonList
    /\ UNCHANGED <<cart, lessons, coVars>>

(* ------------------------- LessonList: catalog ------------------------ *)
\* LessonList.vue showNotification
showNotification(msg, success) == [show |-> TRUE, message |-> msg, success |-> success]

\* the setTimeout callback of showNotification
hideNotification ==
    /\ currentView = "list"
    /\ notification.show
    /\ notification' = [notification EXCEPT !.show = FALSE]
    /\ UNCHANGED <<filters, appVars, llLessons, llCart, isLoading, fetching, customerInfo,
                   isPlacingOrder, isCheckoutVisible, llPhase, llRequest, coVars>>

\* a watcher of sortField / sortOrder / minSpaces / searchTerm calls fetchLessons:
\* the part of fetchLessons before its await
watchFilter ==
    /\ currentView = "list"
    /\ fetching < MaxFetch
    /\ isLoading' = TRUE
    /\ fetching' = fetching + 1
    /\ UNCHANGED <<filters, appVars, llLessons, llCart, notification, customerInfo,
                   isPlacingOrder, isCheckoutVisible, llPhase, llRequest, coVars>>

\* the watcher of searchTerm: whether it calls fetchLessons
searchTermChanged(oldTerm, newTerm) == trim(newTerm) # trim(oldTerm)

\* fetchLessons up to its await: the request is issued
fetchLessonsStart ==
    /\ fetching < MaxFetch
    /\ isLoading' = TRUE
    /\ fetching' = fetching + 1

\* the search box is edited; its watcher runs
setSearchTerm(v) ==
    /\ currentView = "list"
    /\ v # filters.searchTerm
    /\ filters' = [filters EXCEPT !.searchTerm = v]
    /\ IF searchTermChanged(filters.searchTerm, v)
       THEN fetchLessonsStart
       ELSE UNCHANGED <<isLoading, fetching>>
    /\ UNCHANGED <<appVars, llLessons, llCart, notification, customerInfo,
                   isPlacingOrder, isCheckoutVisible, llPhase, llRequest, coVars>>

\* sortField, sortOrder or minSpaces is set to another value; the watcher of
\* the three calls fetchLessons
setFilter(field, v) ==
    /\ currentView = "list"
    /\ v # filters[field]
    /\ filters' = [filters EXCEPT ![field] = v]
    /\ fetchLessonsStart
    /\ UNCHANGED <<appVars, llLessons, llCart, notification, customerInfo,
                   isPlacingOrder, isCheckoutVisible, llPhase, llRequest, coVars>>

\* fetchLessons that keeps the lessons the answer does not bring
fetchDoneKeepsOthers(data) ==
    /\ llLessons' = [l \in DOMAIN data \cup DOMAIN llLessons |->
                        IF l \in DOMAIN data THEN data[l] ELSE llLessons[l]]
    /\ lessons' = llLessons'
    /\ isLoading' = FALSE

\* fetchLessons after its await, answer ok: lessons.value = data and
\* emit('update:lessons', data), which App.vue updateLessons stores
fetchDone(data) ==
    /\ llLessons' = data
    /\ lessons' = data
    /\ isLoading' = FALSE

\* fetchLessons after its await, status not ok or fetch rejected: the catch
fetchFailed ==
    /\ llLessons' = EmptyObj
    /\ lessons' = lessons
    /\ isLoading' = FALSE

\* a catalog request of a watcher or of onMounted is answered: ok with the
\* list data, or not
fetchSettles(ok, data) ==
    /\ currentView = "list"
    /\ fetching > 0
    /\ fetching' = fetching - 1
    /\ IF ok THEN fetchDone(data) ELSE fetchFailed
    /\ UNCHANGED <<filters, currentView, cart, llCart, notification, customerInfo,
                   isPlacingOrder, isCheckoutVisible, llPhase, llRequest, coVars>>

fetchResolves ==
    \/ \E data \in Catalogs : fetchSettles(TRUE, data)
    \/ fetchSettles(FALSE, EmptyObj)

(* ------------------------- LessonList: add ---------------------------- *)
\* the guard of addToCart, off by one
soldOutBelowZero(space) == space < 0

\* addToCart with no guard on lesson.space
soldOutNever(space) == FALSE

\* the guard of addToCart on lesson.space
soldOut(space) == space <= 0

\* the guard of addToCart on the extracted id
invalidId(lessonId) == lessonId = Null \/ lessonId = "0"

\* LessonList.vue addToCart(lesson), lesson one of the cards rendered
addToCart(l) ==
    LET lessonId == getLessonId(l)
        newCart == Put(llCart, lessonId, GetOr0(llCart, lessonId) + 1)
        newLessons == [llLessons EXCEPT ![l] = @ - 1]
    IN  /\ currentView = "list"
        /\ ~isLoading
        /\ l \in DOMAIN llLessons
        /\ IF invalidId(lessonId)
           THEN /\ notification' = showNotification("invalidId", FALSE)
                /\ UNCHANGED <<cart, lessons, llLessons, llCart, message>>
           ELSE IF soldOut(llLessons[l])
           THEN UNCHANGED <<cart, lessons, llLessons, llCart, message, notification>>
           ELSE /\ GetOr0(llCart, lessonId) < MaxQty
                /\ llLessons' = newLessons
                /\ lessons' = newLessons
                /\ llCart' = newCart
                /\ notification' = showNotification("added", TRUE)
                /\ cart' = updateCart(newCart)
                /\ message' = cartWatcher
        /\ UNCHANGED <<filters, currentView, isLoading, fetching, customerInfo,
                       isPlacingOrder, isCheckoutVisible, llPhase, llRequest,
                       customerName, customerPhone, isProcessing, coPhase,
                       coRequest, coPuts>>

(* ----------------------------- Checkout ------------------------------ *)
\* detailedCart with the price as the subtotal of a line
detailedCartUnitSubtotal ==
    LET ids == { id \in DOMAIN cart : cart[id] > 0 /\ findIndex(lessons, id) # {} }
    IN  [id \in ids |->
            LET lesson == CHOOSE l \in findIndex(lessons, id) : TRUE
            IN  [id |-> id, topic |-> lesson, price |-> Price(lesson),
                 quantity |-> cart[id], subtotal |-> Price(lesson)]]

\* Checkout detailedCart: one line per cart entry that has quantity > 0 and
\* whose id a lesson of props.lessons carries
detailedCart ==
    LET ids == { id \in DOMAIN cart : cart[id] > 0 /\ findIndex(lessons, id) # {} }
    IN  [id \in ids |->
            LET lesson == CHOOSE l \in findIndex(lessons, id) : TRUE
            IN  [id |-> id, topic |-> lesson, price |-> Price(lesson),
                 quantity |-> cart[id], subtotal |-> Price(lesson) * cart[id]]]

\* a total that counts every line once, whatever its quantity
subtotalsOfPrices(lines) == SumOver([id \in DOMAIN lines |-> lines[id].price], DOMAIN lines)

\* the sum of the subtotals of a set of lines, in mills
subtotals(lines) == SumOver([id \in DOMAIN lines |-> lines[id].subtotal], DOMAIN lines)

\* Number.prototype.toFixed(2) of an amount in mills: the text, as a count of
\* pence (a tie, which no price here produces, rounds up)
toFixed2(mills) == (mills + 5) \div 10

\* parseFloat of a two-decimal text: the amount in mills
parseFloat(pence) == pence * 10

\* Checkout cartTotal
cartTotal == toFixed2(subtotals(detailedCart))

\* the total field of Checkout's orderPayload
payloadTotal == parseFloat(cartTotal)

\* the lessons field of an order payload
payloadLines(lines) ==
    [id \in DOMAIN lines |->
        [id |-> id, topic |-> lines[id].topic, quantity |-> lines[id].quantity,
         price |-> lines[id].price]]

\* Checkout isFormValid
isFormValid ==
    /\ trim(customerName) # ""
    /\ trim(customerPhone) # ""
    /\ DOMAIN detailedCart # {}

\* a submit button that is never disabled
neverDisabled == FALSE

\* the submit button's :disabled, as far as it keeps submitOrder from being
\* entered again; the handler's own check covers the rest of the binding
submitDisabled == isProcessing

\* v-model of the two inputs of the checkout form
setCustomerName(v) ==
    /\ v # customerName
    /\ customerName' = v
    /\ UNCHANGED <<appVars, llVars, customerPhone, isProcessing, message, coPhase,
                   coRequest, coPuts>>

setCustomerPhone(v) ==
    /\ v # customerPhone
    /\ customerPhone' = v
    /\ UNCHANGED <<appVars, llVars, customerName, isProcessing, message, coPhase,
                   coRequest, coPuts>>

\* App.vue template: @orderPlaced="handleOrderCompletion".  The script defines
\* no handleOrderCompletion, so the event has no listener.
emitOrderPlaced == UNCHANGED <<currentView, cart, lessons, llVars>>

\* submitOrder: the success path after phase 2
orderSucceeded ==
    /\ message' = [text |-> "Order placed and stock updated successfully!",
                   detail |-> "", type |-> "success"]
    /\ customerName' = ""
    /\ customerPhone' = ""
    /\ emitOrderPlaced
    /\ isProcessing' = FALSE
    /\ coPhase' = "idle"

\* the error.message the catch of submitOrder reports
OrderFailedStatus == "Order failed! Status"
FetchRejected == "Failed to fetch"

\* submitOrder's catch, were it to empty the cart
transactionFailedClearsCart(detail) ==
    /\ message' = [text |-> "Transaction failed. Details", detail |-> detail,
                   type |-> "error"]
    /\ isProcessing' = FALSE
    /\ coPhase' = "idle"
    /\ cart' = EmptyObj
    /\ UNCHANGED <<customerName, customerPhone, currentView, lessons, llVars>>


\* submitOrder's catch with no finally after it
transactionFailedStaysBusy(detail) ==
    /\ message' = [text |-> "Transaction failed. Details", detail |-> detail,
                   type |-> "error"]
    /\ coPhase' = "idle"
    /\ UNCHANGED <<isProcessing, customerName, customerPhone, currentView, cart,
                   lessons, llVars>>

\* submitOrder: catch and finally
transactionFailed(detail) ==
    /\ message' = [text |-> "Transaction failed. Details", detail |-> detail,
                   type |-> "error"]
    /\ isProcessing' = FALSE
    /\ coPhase' = "idle"
    /\ UNCHANGED <<customerName, customerPhone, currentView, cart, lessons, llVars>>

\* Checkout submitOrder, up to the await of the order-create request
submitOrder ==
    /\ ~submitDisabled
    /\ IF ~isFormValid
       THEN /\ message' = [text |-> "Please fill out your name and phone number.",
                           detail |-> "", type |-> "error"]
            /\ isProcessing' = FALSE
            /\ UNCHANGED <<coPhase, coRequest, coPuts>>
       ELSE /\ message' = NoMessage
            /\ isProcessing' = TRUE
            /\ coPhase' = "post"
            /\ coRequest' = [sent |-> coRequest.sent + 1, name |-> customerName,
                             phone |-> customerPhone,
                             lessons |-> payloadLines(detailedCart),
                             total |-> payloadTotal]
            /\ coPuts' = EmptyObj
    /\ UNCHANGED <<appVars, llVars, customerName, customerPhone>>

\* phase 2 asking for one unit per line
updatePromisesOneUnit ==
    [id \in DOMAIN detailedCart |-> [quantity |-> 1, state |-> "pending"]]

\* the requests phase 2 issues: one per line of detailedCart as it is then
updatePromises ==
    [id \in DOMAIN detailedCart |->
        [quantity |-> detailedCart[id].quantity, state |-> "pending"]]

\* the order-create request is answered: ok, a status that is not ok, or
\* fetch rejects
orderResponds(outcome) ==
    /\ coPhase = "post"
    /\ coRequest' = answered(coRequest)
    /\ IF outcome = "ok"
       THEN IF DOMAIN updatePromises = {}
            THEN orderSucceeded /\ UNCHANGED coPuts
            ELSE /\ coPuts' = updatePromises
                 /\ coPhase' = "puts"
                 /\ UNCHANGED <<appVars, llVars, customerName, customerPhone,
                                isProcessing, message>>
       ELSE /\ transactionFailed(IF outcome = "bad" THEN OrderFailedStatus ELSE FetchRejected)
            /\ UNCHANGED coPuts

\* whether Promise.all(updatePromises) has settled, and how
allSettled(puts) ==
    IF \E k \in DOMAIN puts : puts[k].state = "reject" THEN "rejected"
    ELSE IF \A k \in DOMAIN puts : puts[k].state # "pending" THEN "fulfilled"
    ELSE "pending"

\* the requests of a phase 2 that are still unanswered
unanswered(puts) == [k \in { x \in DOMAIN puts : puts[x].state = "pending" } |-> puts[k]]

\* one inventory request of the running submitOrder is answered; once
\* Promise.all has settled, submitOrder goes on and its responses are dropped
putResponds(id, outcome) ==
    LET after == [coPuts EXCEPT ![id].state = outcome]
    IN  /\ coPhase = "puts"
        /\ id \in DOMAIN coPuts
        /\ coPuts[id].state = "pending"
        /\ UNCHANGED coRequest
        /\ CASE allSettled(after) = "rejected" ->
                    transactionFailed(FetchRejected) /\ coPuts' = unanswered(after)
             [] allSettled(after) = "fulfilled" ->
                    orderSucceeded /\ coPuts' = EmptyObj
             [] OTHER ->
                    /\ coPuts' = after
                    /\ UNCHANGED <<appVars, llVars, customerName, customerPhone,
                                   isProcessing, message, coPhase>>

\* an inventory request is answered after its Promise.all rejected
latePutResponds(id) ==
    /\ coPhase = "idle"
    /\ id \in DOMAIN coPuts
    /\ coPuts[id].state = "pending"
    /\ coPuts' = Del(coPuts, id)
    /\ UNCHANGED <<appVars, llVars, customerName, customerPhone, isProcessing,
                   message, coPhase, coRequest>>

Outcomes == {"ok", "bad", "reject"}

(* ----------------------- LessonList: placeOrder ------------------------ *)
\* LessonList totalCartItems
totalCartItems == SumOver(llCart, DOMAIN llCart)

\* the floating Checkout button of the list view
openCheckout ==
    /\ currentView = "list"
    /\ totalCartItems > 0
    /\ ~isCheckoutVisible
    /\ isCheckoutVisible' = TRUE
    /\ UNCHANGED <<filters, appVars, llLessons, llCart, isLoading, fetching, notification,
                   customerInfo, isPlacingOrder, llPhase, llRequest, coVars>>

\* the Cancel button of the order form
cancelCheckout ==
    /\ currentView = "list"
    /\ isCheckoutVisible
    /\ ~isPlacingOrder
    /\ isCheckoutVisible' = FALSE
    /\ UNCHANGED <<filters, appVars, llLessons, llCart, isLoading, fetching, notification,
                   customerInfo, isPlacingOrder, llPhase, llRequest, coVars>>

\* v-model of the two inputs of the order form
setInfoName(v) ==
    /\ currentView = "list"
    /\ isCheckoutVisible
    /\ v # customerInfo.name
    /\ customerInfo' = [customerInfo EXCEPT !.name = v]
    /\ UNCHANGED <<filters, appVars, llLessons, llCart, isLoading, fetching, notification,
                   isPlacingOrder, isCheckoutVisible, llPhase, llRequest, coVars>>

setInfoPhone(v) ==
    /\ currentView = "list"
    /\ isCheckoutVisible
    /\ v # customerInfo.phone
    /\ customerInfo' = [customerInfo EXCEPT !.phone = v]
    /\ UNCHANGED <<filters, appVars, llLessons, llCart, isLoading, fetching, notification,
                   isPlacingOrder, isCheckoutVisible, llPhase, llRequest, coVars>>

\* placeOrder: lessonsMap, keyed by getLessonId
lessonsMap == { l \in DOMAIN llLessons : getLessonId(l) # Null }

\* placeOrder: lessonsArray, one line per cart entry found in lessonsMap
lessonsArray ==
    LET ids == { id \in DOMAIN llCart :
                    /\ \E l \in lessonsMap : getLessonId(l) = id
                    /\ id # "0" }
    IN  [id \in ids |->
            LET lesson == CHOOSE l \in lessonsMap : getLessonId(l) = id
            IN  [id |-> id, topic |-> lesson, price |-> Price(lesson),
                 quantity |-> llCart[id], subtotal |-> Price(lesson) * llCart[id]]]

\* placeOrder: calculatedTotal
calculatedTotal == subtotals(lessonsArray)

\* the check of placeOrder on customerInfo
infoMissing == customerInfo.name = "" \/ customerInfo.phone = ""

\* the submit button's :disabled="isPlacingOrder"
placeDisabled == isPlacingOrder

\* LessonList placeOrder, up to the await of the order-create request
placeOrder ==
    /\ currentView = "list"
    /\ isCheckoutVisible
    /\ ~placeDisabled
    /\ IF DOMAIN llCart = {}
       THEN /\ notification' = showNotification("Your cart is empty", FALSE)
            /\ UNCHANGED <<isPlacingOrder, llPhase, llRequest>>
       ELSE IF infoMissing
       THEN /\ notification' = showNotification("Please fill in both", FALSE)
            /\ UNCHANGED <<isPlacingOrder, llPhase, llRequest>>
       ELSE IF DOMAIN lessonsArray = {}
       THEN /\ notification' = showNotification("No valid items", FALSE)
            /\ isPlacingOrder' = FALSE
            /\ UNCHANGED <<llPhase, llRequest>>
       ELSE /\ isPlacingOrder' = TRUE
            /\ llPhase' = "post"
            /\ llRequest' = [sent |-> llRequest.sent + 1, name |-> customerInfo.name,
                             phone |-> customerInfo.phone,
                             lessons |-> payloadLines(lessonsArray),
                             total |-> calculatedTotal]
            /\ UNCHANGED notification
    /\ UNCHANGED <<filters, appVars, llLessons, llCart, isLoading, fetching, customerInfo,
                   isCheckoutVisible, coVars>>

\* placeOrder: catch and finally
orderFailed ==
    /\ notification' = showNotification("Failed to place order", FALSE)
    /\ isPlacingOrder' = FALSE
    /\ llPhase' = "idle"
    /\ UNCHANGED <<filters, appVars, llLessons, llCart, isLoading, fetching, customerInfo,
                   isCheckoutVisible, coVars>>

\* the order-create request of placeOrder is answered
placeResponds(outcome) ==
    /\ currentView = "list"
    /\ llPhase = "post"
    /\ llRequest' = answered(llRequest)
    /\ CASE outcome = "ok" ->
                /\ notification' = showNotification("Order placed successfully", TRUE)
                /\ llCart' = EmptyObj
                /\ customerInfo' = [name |-> "", phone |-> ""]
                /\ isCheckoutVisible' = FALSE
                /\ isLoading' = TRUE
                /\ llPhase' = "refetch"
                /\ UNCHANGED <<filters, appVars, llLessons, fetching, isPlacingOrder, coVars>>
         [] outcome = "bad" ->
                /\ llPhase' = "errorBody"
                /\ UNCHANGED <<filters, appVars, llLessons, llCart, isLoading, fetching,
                               notification, customerInfo, isPlacingOrder,
                               isCheckoutVisible, coVars>>
         [] outcome = "reject" -> orderFailed

\* await response.json() of the failed answer ends, either way in the catch
errorBodyRead ==
    /\ currentView = "list"
    /\ llPhase = "errorBody"
    /\ UNCHANGED llRequest
    /\ orderFailed

\* await fetchLessons() of placeOrder ends, then its finally
refetchResolves ==
    /\ currentView = "list"
    /\ llPhase = "refetch"
    /\ \/ \E data \in Catalogs : fetchDone(data)
       \/ fetchFailed
    /\ isPlacingOrder' = FALSE
    /\ llPhase' = "idle"
    /\ UNCHANGED <<filters, currentView, cart, llCart, fetching, notification, customerInfo,
                   isCheckoutVisible, llRequest, coVars>>

(* --------------------------- specification ---------------------------- *)
\* the steps of the cart operations, with the operation and its inputs noted
add(l) ==
    /\ addToCart(l)
    /\ lastOp' = Op("add", l, 0, llLessons[l])

remove(id, n) ==
    /\ handleRemoveItem(id, n)
    /\ lastOp' = Op("remove", id, n, GetOr0(cart, id))

clear ==
    /\ handleOrderPlaced
    /\ lastOp' = Op("clear", "", 0, 0)

\* a list the server answers with, as a number
listCode(data) ==
    LET digit(l) == IF l \in DOMAIN data THEN data[l] + 1 ELSE 0
    IN  digit("A") + 10 * digit("B") + 100 * digit("C")

\* lastOp.key is the outcome of the request, lastOp.pre the list it brought
refresh ==
    \/ \E data \in Catalogs :
          fetchSettles(TRUE, data) /\ lastOp' = Op("refresh", "ok", 0, listCode(data))
    \/ fetchSettles(FALSE, EmptyObj) /\ lastOp' = Op("refresh", "failed", 0, 0)

submit ==
    /\ submitOrder
    /\ lastOp' = Op("submit", "", 0, 0)

place ==
    /\ placeOrder
    /\ lastOp' = Op("place", "", 0, 0)

\* the order-create request of submitOrder is answered; lastOp.key is the answer
answer(o) ==
    /\ orderResponds(o)
    /\ lastOp' = Op("answer", o, 0, 0)

\* a step of anything else
other(A) == A /\ lastOp' = OtherOp /\ UNCHANGED <<orderForm, reported>>

\* the list view, the catalog and the App handlers
NextCart ==
    \/ \E l \in LessonIds : add(l) /\ UNCHANGED <<orderForm, reported>>
    \/ \E id \in CartKeys, n \in 1..MaxCount : remove(id, n) /\ UNCHANGED <<orderForm, reported>>
    \/ clear /\ UNCHANGED <<orderForm, reported>>
    \/ refresh /\ UNCHANGED <<orderForm, reported>>
    \/ other(showList)
    \/ other(showCheckout)
    \/ other(hideNotification)
    \/ other(watchFilter)

InitCart == Setup /\ orderForm = "none"

SpecCart == InitCart /\ [][NextCart]_vars

\* a list a server of unchanging stock can answer with, and what it has
\* reported once it did
sameStock(data) ==
    \A l \in DOMAIN data \cap DOMAIN reported : data[l] = reported[l]

reportedWith(data) ==
    [l \in DOMAIN data \cup DOMAIN reported |->
        IF l \in DOMAIN data THEN data[l] ELSE reported[l]]

\* adds and refreshes with no order placed and no one else buying: the stock
\* of the server stays what it is
NextReserve ==
    \/ \E l \in LessonIds : add(l) /\ UNCHANGED <<orderForm, reported>>
    \/ \E data \in Catalogs :
          /\ sameStock(data)
          /\ fetchSettles(TRUE, data)
          /\ lastOp' = Op("refresh", "ok", 0, listCode(data))
          /\ reported' = reportedWith(data)
          /\ UNCHANGED orderForm
    \/ /\ fetchSettles(FALSE, EmptyObj)
       /\ lastOp' = Op("refresh", "failed", 0, 0)
       /\ UNCHANGED <<orderForm, reported>>
    \/ other(watchFilter)

SpecReserve == InitCart /\ [][NextReserve]_vars

\* the list view with its filter and sort controls
NextCatalog ==
    \/ \E v \in SearchTerms : other(setSearchTerm(v))
    \/ \E v \in SortFields : other(setFilter("sortField", v))
    \/ \E v \in SortOrders : other(setFilter("sortOrder", v))
    \/ \E v \in MinSpaces : other(setFilter("minSpaces", v))
    \/ refresh /\ UNCHANGED <<orderForm, reported>>
    \/ \E l \in LessonIds : add(l) /\ UNCHANGED <<orderForm, reported>>
    \/ other(showList)
    \/ other(showCheckout)

SpecCatalog == InitCart /\ [][NextCatalog]_vars

\* The two order forms over a cart filled from the list view.  In one
\* behaviour the customer works with one of the two forms, and a filter is
\* changed when no catalog request is outstanding.
NextOrder ==
    \/ \E l \in LessonIds : other(addToCart(l))
    \/ fetching = 0 /\ other(watchFilter)
    \/ other(fetchResolves)
    \/ \E v \in Names : orderForm = "checkout" /\ other(setCustomerName(v))
    \/ \E v \in Phones : orderForm = "checkout" /\ other(setCustomerPhone(v))
    \/ orderForm = "checkout" /\ submit /\ UNCHANGED <<orderForm, reported>>
    \/ \E o \in Outcomes : answer(o) /\ UNCHANGED <<orderForm, reported>>
    \/ \E id \in CartKeys, o \in Outcomes : other(putResponds(id, o))
    \/ \E id \in CartKeys : other(latePutResponds(id))
    \/ orderForm = "list" /\ other(openCheckout)
    \/ other(cancelCheckout)
    \/ \E v \in Names : other(setInfoName(v))
    \/ \E v \in Phones : other(setInfoPhone(v))
    \/ place /\ UNCHANGED <<orderForm, reported>>
    \/ \E o \in Outcomes : other(placeResponds(o))
    \/ other(errorBodyRead)
    \/ other(refetchResolves)

InitOrder == Setup /\ orderForm \in {"checkout", "list"}

SpecOrder == InitOrder /\ [][NextOrder]_vars

\* every request a submission awaits is answered in the end: fetch settles
\* its promise, and so do response.json() and fetchLessons()
RequestsComplete ==
    /\ WF_vars(\E o \in Outcomes : answer(o) /\ UNCHANGED <<orderForm, reported>>)
    /\ WF_vars(\E id \in CartKeys, o \in Outcomes : other(putResponds(id, o)))
    /\ WF_vars(\E o \in Outcomes : other(placeResponds(o)))
    /\ WF_vars(other(errorBodyRead))
    /\ WF_vars(other(refetchResolves))

\* the two order forms with the filters of the list view left alone
NextSubmission ==
    \/ \E l \in LessonIds : other(addToCart(l))
    \/ other(fetchResolves)
    \/ \E v \in Names : orderForm = "checkout" /\ other(setCustomerName(v))
    \/ \E v \in Phones : orderForm = "checkout" /\ other(setCustomerPhone(v))
    \/ orderForm = "checkout" /\ submit /\ UNCHANGED <<orderForm, reported>>
    \/ \E o \in Outcomes : answer(o) /\ UNCHANGED <<orderForm, reported>>
    \/ \E id \in CartKeys, o \in Outcomes : other(putResponds(id, o))
    \/ \E id \in CartKeys : other(latePutResponds(id))
    \/ orderForm = "list" /\ other(openCheckout)
    \/ other(cancelCheckout)
    \/ \E v \in Names : other(setInfoName(v))
    \/ \E v \in Phones : other(setInfoPhone(v))
    \/ place /\ UNCHANGED <<orderForm, reported>>
    \/ \E o \in Outcomes : other(placeResponds(o))
    \/ other(errorBodyRead)
    \/ other(refetchResolves)

SpecOrderLive == InitOrder /\ [][NextSubmission]_vars /\ RequestsComplete

(* ------------------------------ claims ------------------------------- *)
Min(a, b) == IF a < b THEN a ELSE b

\* the quantity the App cart holds for a lesson of the cached list
held(c, l) == GetOr0(c, legacyId(l))

\* C1: over add and remove operations with no refresh in between, the cart
\* quantity of a lesson plus its cached space stays at the space S the server
\* reported: every add and every remove (any count >= 1) leaves the sum as it was.
C1_SumStaysAtReported ==
    [][lastOp'.op \in {"add", "remove"} =>
        /\ DOMAIN lessons' = DOMAIN lessons
        /\ \A l \in DOMAIN lessons :
              held(cart', l) + lessons'[l] = held(cart, l) + lessons[l]]_vars

\* C2: an add on a lesson whose space is 0, or whose id cannot be extracted,
\* changes neither cart nor any cached lesson's space, however often repeated.
C2_RejectedAddChangesNothing ==
    [][(/\ lastOp'.op = "add"
        /\ \/ lastOp'.pre = 0
           \/ RawId(lastOp'.key).form = "string" /\ RawId(lastOp'.key).len < 10)
       => /\ cart' = cart
          /\ llCart' = llCart
          /\ lessons' = lessons
          /\ llLessons' = llLessons]_vars

\* an add was tried on a sold out lesson with a good id, over a filled cart
C2_Witness ==
    /\ lastOp.op = "add"
    /\ lastOp.pre = 0
    /\ lastOp.key = "A"
    /\ DOMAIN cart # {}

\* C3: remove(id, n) on a cart holding q of id, 1 <= q < n, leaves no entry for
\* id, and no cart entry ever holds a negative quantity.
C3_OverRemoveDeletesEntry ==
    /\ (lastOp.op = "remove" /\ 1 <= lastOp.pre /\ lastOp.pre < lastOp.n)
            => lastOp.key \notin DOMAIN cart
    /\ \A k \in DOMAIN cart : cart[k] >= 0

\* a remove of 2 has just acted on an entry of quantity 1
C3_Witness ==
    /\ lastOp.op = "remove"
    /\ lastOp.pre = 1
    /\ lastOp.n = 2

\* C4: remove(id, count) raises the cached lesson's space by the units taken
\* out of the cart, min(count, quantity held before), for every count >= 1.
C4_SpaceRisesByUnitsRemoved ==
    [][lastOp'.op = "remove" =>
        \A l \in findIndex(lessons, lastOp'.key) :
            lessons'[l] = lessons[l] + Min(lastOp'.n, lastOp'.pre)]_vars

\* the cart entries of c that a lesson of the list ls carries, by the id Id gives
resolved(c, ls, Id(_)) == { id \in DOMAIN c : \E l \in DOMAIN ls : Id(l) = id }

\* the sum of price * quantity over those entries, in mills
LineSum(c, ls, Id(_)) ==
    LET ids == resolved(c, ls, Id)
    IN  SumOver([id \in ids |-> c[id] * Price(CHOOSE l \in DOMAIN ls : Id(l) = id)], ids)

\* an amount in mills to the nearest penny
NearestPenny(x) == LET lo == 10 * (x \div 10) IN IF x - lo < 5 THEN lo ELSE lo + 10

\* C5 (as stated): the total of the order payload a submission sends equals the
\* sum of price * quantity over the derived cart lines at that moment, in
\* Checkout submitOrder and in LessonList placeOrder.
C5_TotalIsLineSum ==
    [][/\ coRequest'.sent > coRequest.sent =>
              coRequest'.total = LineSum(cart, lessons, legacyId)
       /\ llRequest'.sent > llRequest.sent =>
              llRequest'.total = LineSum(llCart, llLessons, getLessonId)]_vars

\* C5 (amended): placeOrder sends that sum; submitOrder sends that sum rounded
\* to two decimals.
C5_TotalIsLineSumToThePenny ==
    [][/\ coRequest'.sent > coRequest.sent =>
              coRequest'.total = NearestPenny(LineSum(cart, lessons, legacyId))
       /\ llRequest'.sent > llRequest.sent =>
              llRequest'.total = LineSum(llCart, llLessons, getLessonId)]_vars

\* the checkout form has sent an order for two units of A and one of B
C5_Witness ==
    /\ coRequest.sent = 1
    /\ DOMAIN coRequest.lessons = {legacyId("A"), legacyId("B")}
    /\ coRequest.lessons[legacyId("A")].quantity = 2
    /\ coRequest.total = 22500

\* C6: when the order-create request of a submission fails, the cart is as it
\* was before and the submission issues no inventory request.
C6_FailedOrderLeavesCart ==
    [][/\ (coPhase = "post" /\ coPhase' = "idle" /\ message'.type = "error")
            => cart' = cart /\ coPuts = EmptyObj /\ coPuts' = EmptyObj
       /\ (llPhase \in {"post", "errorBody"} /\ llPhase' = "idle")
            => cart' = cart /\ llCart' = llCart /\ coPuts' = coPuts]_vars

\* an order-create request over a filled cart was answered with a bad status
C6_Witness ==
    /\ message.detail = OrderFailedStatus
    /\ coPhase = "idle"
    /\ DOMAIN cart # {}

C8_SuccessClearsAndRefreshes ==
    [][/\ (coPhase # "idle" /\ coPhase' = "idle" /\ message'.type = "success")
            => /\ cart' = EmptyObj
               /\ customerName' = "" /\ customerPhone' = ""
               /\ fetching' > fetching \/ llPhase' = "refetch"
       /\ (llPhase = "post" /\ llPhase' = "refetch")
            => /\ cart' = EmptyObj
               /\ customerInfo' = [name |-> "", phone |-> ""]
               /\ notification'.show /\ notification'.success
               /\ isLoading']_vars

\* no cart entry of c is carried by a lesson of ls
noLine(c, ls, Id(_)) == resolved(c, ls, Id) = {}

\* what a locally rejected submitOrder leaves
checkoutRejected ==
    /\ coRequest' = coRequest /\ coRequest'.sent = 0
    /\ llRequest' = llRequest
    /\ coPuts' = coPuts
    /\ message'.type = "error"
    /\ ~isProcessing' /\ coPhase' = "idle"

\* what a locally rejected placeOrder leaves
listRejected ==
    /\ llRequest' = llRequest /\ llRequest'.sent = 0
    /\ coRequest' = coRequest
    /\ coPuts' = coPuts
    /\ notification'.show /\ ~notification'.success
    /\ ~isPlacingOrder' /\ llPhase' = "idle"

\* C9: a submission tried while the name is empty after trimming,
\* the phone is empty or the derived cart is empty sends nothing, sets an error
\* message and leaves the form idle.
C9_InvalidSubmissionRejected ==
    [][/\ (/\ lastOp'.op = "submit"
           /\ \/ trim(customerName) = ""
              \/ customerPhone = ""
              \/ noLine(cart, lessons, legacyId))
            => checkoutRejected
       /\ (/\ lastOp'.op = "place"
           /\ \/ trim(customerInfo.name) = ""
              \/ customerInfo.phone = ""
              \/ noLine(llCart, llLessons, getLessonId))
            => listRejected]_vars

\* C10: while a submission awaits its answer no second order-create request is
\* sent: each form has at most one in flight.
C10_OneOrderInFlight ==
    /\ coRequest.sent <= 1
    /\ llRequest.sent <= 1
    /\ coRequest.sent = 1 => isProcessing
    /\ llRequest.sent = 1 => isPlacingOrder

\* the checkout form is Submitting, its order-create request in flight
C10_Witness ==
    /\ isProcessing
    /\ coPhase = "post"
    /\ coRequest.sent = 1

\* C11: the join of phase 2 waits for every inventory request: submitOrder is
\* never back at rest (outcome set, isProcessing reset) while an inventory
\* request of it is unanswered, also when another one has failed.
C11_JoinWaitsForAll ==
    ~isProcessing => \A id \in DOMAIN coPuts : coPuts[id].state # "pending"

\* C12: after a failed catalog refresh the cached lesson list is empty in the
\* list view and in the list App hands to the checkout view, the failure is
\* shown to the user, and no new catalog request has been issued.
C12_FailedRefreshEmptiesCache ==
    [][(lastOp'.op = "refresh" /\ lastOp'.key = "failed") =>
          /\ llLessons' = EmptyObj
          /\ lessons' = EmptyObj
          /\ notification'.show /\ ~notification'.success
          /\ fetching' < fetching]_vars

\* C13: an add on a lesson with space 0 sets a rejection notification the
\* user sees, besides leaving the cart and the catalog as they are.
C13_SoldOutAddNotifies ==
    [][(/\ lastOp'.op = "add"
        /\ lastOp'.pre = 0
        /\ getLessonId(lastOp'.key) # Null)
          => /\ notification'.show /\ ~notification'.success
             /\ cart' = cart /\ lessons' = lessons]_vars

\* C14: a submission that has entered Submitting returns to Idle in the end,
\* whatever its requests answer, given that every request is answered.
C14_SubmittingEndsIdle ==
    /\ isProcessing ~> ~isProcessing
    /\ isPlacingOrder ~> ~isPlacingOrder

\* a submission whose inventory request was rejected is back at Idle
C14_Witness ==
    /\ ~isProcessing
    /\ coPhase = "idle"
    /\ message.type = "error"
    /\ message.detail = FetchRejected
    /\ \E id \in DOMAIN coPuts : coPuts[id].state = "pending"

\* C15: submitOrder issues inventory requests only once order-create was
\* answered ok, and then one for each derived cart line, with the line's id
\* and its quantity as the amount to subtract.
C15_OnePutPerLineAfterOrder ==
    [][/\ (\E id \in DOMAIN coPuts' :
              /\ coPuts'[id].state = "pending"
              /\ id \notin DOMAIN coPuts \/ coPuts[id].state # "pending")
            => lastOp'.op = "answer" /\ lastOp'.key = "ok"
       /\ (lastOp'.op = "answer" /\ lastOp'.key = "ok")
            => /\ DOMAIN coPuts' = resolved(cart, lessons, legacyId)
               /\ \A id \in DOMAIN coPuts' :
                     coPuts'[id] = [quantity |-> cart[id], state |-> "pending"]
       /\ (lastOp'.op = "answer" /\ lastOp'.key # "ok")
            => coPuts' = EmptyObj]_vars

\* phase 2 has issued its requests for a cart of two lines, one of two units
C15_Witness ==
    /\ lastOp.op = "answer" /\ lastOp.key = "ok"
    /\ coPhase = "puts"
    /\ DOMAIN coPuts = {legacyId("A"), legacyId("B")}
    /\ coPuts[legacyId("B")].quantity = 2

\* C16: every entry of the cart store has a quantity of at least 1, whatever
\* add, remove, clear or cart update came before.
C16_QuantitiesAtLeastOne ==
    /\ \A id \in DOMAIN cart : cart[id] \in Nat /\ cart[id] >= 1
    /\ \A id \in DOMAIN llCart : llCart[id] \in Nat /\ llCart[id] >= 1

\* a remove of exactly the quantity held has taken the entry out of a cart
\* that holds another one
C16_Witness ==
    /\ lastOp.op = "remove"
    /\ lastOp.pre >= 1
    /\ lastOp.n = lastOp.pre
    /\ lastOp.key \notin DOMAIN cart
    /\ DOMAIN cart # {}

\* C17: remove(id, count) for an id with no entry in the cart changes neither
\* the cart nor the space of any cached lesson.
C17_RemoveAbsentIsNoOp ==
    [][(lastOp'.op = "remove" /\ lastOp'.key \notin DOMAIN cart)
          => /\ cart' = cart
             /\ lessons' = lessons
             /\ llLessons' = llLessons]_vars

\* a remove for an id the cart does not hold, whose lesson is in the cache
C17_Witness ==
    /\ lastOp.op = "remove"
    /\ lastOp.pre = 0
    /\ findIndex(lessons, lastOp.key) # {}
    /\ DOMAIN cart # {}

\* C18: clear (handleOrderPlaced) leaves the cart store without entries and
\* the space of every cached lesson as it was.
C18_ClearEmptiesCartOnly ==
    [][lastOp'.op = "clear"
          => /\ cart' = EmptyObj
             /\ lessons' = lessons
             /\ currentView = "list" => llLessons' = llLessons]_vars

\* clear has emptied a cart whose units stay taken from a cached lesson
C18_Witness ==
    /\ lastOp.op = "clear"
    /\ cart = EmptyObj
    /\ DOMAIN llCart # {}
    /\ \E l \in DOMAIN lessons : lessons[l] = 0

\* the lines a derived cart must hold for the cart c over the list ls
linesOf(derived, c, ls, Id(_)) ==
    /\ DOMAIN derived = resolved(c, ls, Id)
    /\ \A id \in DOMAIN derived :
          LET lesson == CHOOSE l \in DOMAIN ls : Id(l) = id
          IN  /\ derived[id].id = id
              /\ derived[id].quantity = c[id]
              /\ derived[id].price = Price(lesson)
              /\ derived[id].subtotal = Price(lesson) * c[id]

\* C19: the derived cart a submission works on holds one line for each cart
\* entry whose id a cached lesson carries, with subtotal = price * quantity;
\* the other entries are not in it and stay in the cart store, which deriving
\* does not change.
C19_DerivedCartIsResolvedLines ==
    [][/\ lastOp'.op = "submit"
            => /\ linesOf(detailedCart, cart, lessons, legacyId)
               /\ cart' = cart
       /\ lastOp'.op = "place"
            => /\ linesOf(lessonsArray, llCart, llLessons, getLessonId)
               /\ llCart' = llCart /\ cart' = cart]_vars

\* submitOrder ran over two units of A and an entry that no cached lesson carries
C19_Witness ==
    /\ \E id \in DOMAIN cart : id \notin DOMAIN detailedCart
    /\ legacyId("A") \in DOMAIN detailedCart
    /\ detailedCart[legacyId("A")].quantity = 2
    /\ lastOp.op = "submit"

\* the filter and sort parameters as the catalog query takes them
asQueried(f) == [f EXCEPT !.searchTerm = trim(@)]

\* a list view is set up with its request, and a refresh answered ok puts
\* the list it brought in the place of the cached one
mountsAndReplaces ==
    /\ (currentView = "checkout" /\ currentView' = "list") => fetching' = 1
    /\ (lastOp'.op = "refresh" /\ lastOp'.key = "ok")
          => /\ listCode(llLessons') = lastOp'.pre
             /\ lessons' = llLessons'

\* C20 (as stated): a catalog request is issued once at startup and after
\* every change of the search term, the minimum space, the sort field or the
\* sort order, and a refresh answered ok replaces the whole cached list.
C20_EveryFilterChangeRefreshes ==
    [][/\ (filters' # filters /\ currentView = "list" /\ currentView' = "list")
            => fetching' = fetching + 1
       /\ mountsAndReplaces]_vars

\* C20 (amended): as stated, but for the search term only a change that is
\* one after trimming issues a request.
C20_EveryQueryChangeRefreshes ==
    [][/\ (/\ asQueried(filters') # asQueried(filters)
           /\ currentView = "list" /\ currentView' = "list")
            => fetching' = fetching + 1
       /\ (/\ filters' # filters
           /\ asQueried(filters') = asQueried(filters))
            => fetching' = fetching
       /\ mountsAndReplaces]_vars

\* a refresh answered ok has replaced a list an add had changed, under a
\* search term and a sort order that were set
C20_Witness ==
    /\ lastOp.op = "refresh" /\ lastOp.key = "ok"
    /\ filters.searchTerm = "a"
    /\ filters.sortOrder = "desc"
    /\ DOMAIN llCart # {}
    /\ \A l \in DOMAIN llLessons : llLessons[l] >= 1

\* C21: the space of every cached lesson is at least 0 in every reachable
\* state, the server reporting no space below 0.
C21_SpaceNeverNegative ==
    /\ \A l \in DOMAIN lessons : lessons[l] >= 0
    /\ \A l \in DOMAIN llLessons : llLessons[l] >= 0

\* an add has taken the last unit of a lesson that an earlier add had taken
\* a unit of
C21_Witness ==
    /\ lastOp.op = "add"
    /\ lastOp.pre = 1
    /\ llLessons[lastOp.key] = 0
    /\ GetOr0(llCart, getLessonId(lastOp.key)) = 2

\* C22: a submission issues at most one order-create request: a request goes
\* out only in the step of a submission the user triggers, one in each, and
\* once it is answered, ok or not, none is in flight again.
C22_OneOrderRequestPerSubmission ==
    [][/\ coRequest'.sent > coRequest.sent
            => lastOp'.op = "submit" /\ coRequest.sent = 0 /\ coRequest'.sent = 1
       /\ llRequest'.sent > llRequest.sent
            => lastOp'.op = "place" /\ llRequest.sent = 0 /\ llRequest'.sent = 1
       /\ (coPhase = "post" /\ coPhase' # "post") => coRequest'.sent = 0
       /\ (llPhase = "post" /\ llPhase' # "post") => llRequest'.sent = 0]_vars

\* an order-create request was answered with a bad status and nothing has
\* been sent since
C22_Witness ==
    /\ lastOp.op = "answer" /\ lastOp.key = "bad"
    /\ coRequest.sent = 0
    /\ ~isProcessing
    /\ message.type = "error"

\* C23: the cart of the list view and the cart App holds for the checkout
\* view agree on the quantity of every lesson after every operation.
C23_CartsAgree ==
    currentView = "list" =>
        \A id \in DOMAIN cart \cup DOMAIN llCart : GetOr0(cart, id) = GetOr0(llCart, id)

\* C24: with no order placed, the quantity the cart holds of a lesson is
\* never more than the space the server reports for it, also after a refresh
\* has set the space anew while the cart kept its entries.
C24_ReservedWithinReported ==
    \A l \in DOMAIN reported : held(cart, l) <= reported[l]

\* C25: when add accepts a lesson, the cart key it writes is the string that
\* remove and the derived cart look the lesson up by, for a bare string id
\* and for a wrapped id: the add shows in the derived cart and remove finds
\* its lesson.
C25_AcceptedAddKeyIsLookupKey ==
    [][(lastOp'.op = "add" /\ llCart' # llCart) =>
          LET l == lastOp'.key
              key == CHOOSE id \in DOMAIN llCart' : GetOr0(llCart, id) # llCart'[id]
          IN  /\ key = legacyId(l)
              /\ GetOr0(cart', key) = llCart'[key]
              /\ findIndex(lessons', key) = {l}
              /\ key \in DOMAIN detailedCart'
              /\ detailedCart'[key].quantity = cart'[key]
              /\ detailedCart'[key].topic = l]_vars

\* an add of the lesson with the wrapped id shows in the derived cart next
\* to a line of the lesson with the bare id
C25_Witness ==
    /\ lastOp.op = "add"
    /\ lastOp.key = "B"
    /\ RawId("B").form = "oid"
    /\ DOMAIN detailedCart = {legacyId("A"), legacyId("B")}

====
